---- MODULE Spec2Model ----
(***************************************************************************)
(* Model of the useSearch composable of anu-vue                            *)
(* (packages/anu-vue/src/composables/useSearch.ts).                        *)
(*                                                                         *)
(* JavaScript strings are sequences of one-character strings, so that      *)
(* toLocaleLowerCase, includes, String and toLocaleString are computed     *)
(* character by character.  JavaScript values are records                  *)
(*   [t, s, n, b, p]  (type tag, string, number, boolean, own properties). *)
(***************************************************************************)
EXTENDS Integers, Sequences, FiniteSets, TLC

\* Longest input collection drawn from Pool.
MaxLen == 2

(***************************************************************************)
(* JavaScript values                                                       *)
(***************************************************************************)
Str(s) == [t |-> "string", s |-> s, n |-> 0, b |-> FALSE, p |-> << >>]

Num(n) == [t |-> "number", s |-> << >>, n |-> n, b |-> FALSE, p |-> << >>]

Bool(b) == [t |-> "boolean", s |-> << >>, n |-> 0, b |-> b, p |-> << >>]

\* p is the list of own enumerable [k, v] entries, in Object.entries order
Obj(p) == [t |-> "object", s |-> << >>, n |-> 0, b |-> FALSE, p |-> p]

Arr == [t |-> "array", s |-> << >>, n |-> 0, b |-> FALSE, p |-> << >>]

Undefined == [t |-> "undefined", s |-> << >>, n |-> 0, b |-> FALSE, p |-> << >>]

Null == [t |-> "null", s |-> << >>, n |-> 0, b |-> FALSE, p |-> << >>]

\* the typeof operator
typeof(v) == IF v.t \in {"array", "null"} THEN "object" ELSE v.t

\* obj[key]
Get(obj, key) ==
    IF \E i \in 1..Len(obj.p) : obj.p[i].k = key
      THEN (CHOOSE e \in {obj.p[i] : i \in 1..Len(obj.p)} : e.k = key).v
      ELSE Undefined

(***************************************************************************)
(* String operations                                                       *)
(***************************************************************************)
LowerChar(c) ==
    CASE c = "A" -> "a"
      [] c = "B" -> "b"
      [] c = "N" -> "n"
      [] OTHER -> c

\* String.prototype.toLocaleLowerCase
RECURSIVE toLocaleLowerCase(_)
toLocaleLowerCase(s) ==
    IF s = << >> THEN << >>
    ELSE << LowerChar(Head(s)) >> \o toLocaleLowerCase(Tail(s))

\* String.prototype.includes
includes(s, q) ==
    \E i \in 0..(Len(s) - Len(q)) : SubSeq(s, i + 1, i + Len(q)) = q

Digit(d) ==
    CASE d = 0 -> "0" [] d = 1 -> "1" [] d = 2 -> "2" [] d = 3 -> "3"
      [] d = 4 -> "4" [] d = 5 -> "5" [] d = 6 -> "6" [] d = 7 -> "7"
      [] d = 8 -> "8" [] d = 9 -> "9"

\* decimal digits of a non-negative integer
RECURSIVE Digits(_)
Digits(n) ==
    IF n < 10 THEN << Digit(n) >>
    ELSE Digits(n \div 10) \o << Digit(n % 10) >>

\* the group separator of the host's default locale
GroupSep(locale) == IF locale = "de-DE" THEN "." ELSE ","

\* digits with the locale's separator between groups of three
RECURSIVE Grouped(_, _)
Grouped(ds, sep) ==
    IF Len(ds) <= 3 THEN ds
    ELSE Grouped(SubSeq(ds, 1, Len(ds) - 3), sep)
           \o << sep >> \o SubSeq(ds, Len(ds) - 2, Len(ds))

\* String(v) for a string, number or boolean
String(v) ==
    CASE v.t = "string" -> v.s
      [] v.t = "number" -> Digits(v.n)
      [] v.t = "boolean" ->
           IF v.b THEN << "t", "r", "u", "e" >> ELSE << "f", "a", "l", "s", "e" >>

\* v.toLocaleString() for a string, number or boolean: only Number overrides
\* Object.prototype.toLocaleString, which is toString
toLocaleString(v, locale) ==
    IF v.t = "number" THEN Grouped(Digits(v.n), GroupSep(locale)) ELSE String(v)

(***************************************************************************)
(* Inputs                                                                  *)
(***************************************************************************)
sAN == << "A", "N" >>

san == << "a", "n" >>

sBob == << "B", "o", "b" >>

sApple == << "A", "p", "p", "l", "e" >>

sbanana == << "b", "a", "n", "a", "n", "a" >>

s10 == << "1", "0" >>

sx == << "x" >>

\* values the query cell takes
Queries == { << >>, san, sAN, s10 }

ItemAnn == Obj(<< [k |-> "name", v |-> Str(sAN)], [k |-> "a", v |-> Num(10)] >>)

ItemBob == Obj(<< [k |-> "name", v |-> Str(sBob)], [k |-> "a", v |-> Num(1000)] >>)

ItemBlankKey == Obj(<< [k |-> "", v |-> Str(sx)], [k |-> "b", v |-> Str(san)] >>)

\* items of every kind: strings, number, boolean, objects, array
Pool == { Str(sAN), Str(s10), Num(10), Bool(TRUE), ItemAnn, ItemBob, ItemBlankKey, Arr }

\* ["Apple", "banana", 42, true]
ScenarioA == << Str(sApple), Str(sbanana), Num(42), Bool(TRUE) >>

RECURSIVE SeqsUpTo(_, _)
SeqsUpTo(S, n) ==
    IF n = 0 THEN { << >> }
    ELSE LET shorter == SeqsUpTo(S, n - 1)
         IN  shorter \cup { Append(c, x) : c \in { d \in shorter : Len(d) = n - 1 }, x \in S }

Collections == SeqsUpTo(Pool, MaxLen) \cup { ScenarioA }

\* caller-supplied functions: a CustomFilter (val, q, item) and a global (q, item)
CallCustom(fn, val, q, item) ==
    CASE fn = "valEqualsQ" -> val.t = "string" /\ val.s = q
      [] fn = "never" -> FALSE

CallGlobal(fn, q, item) ==
    CASE fn = "itemEqualsQ" -> item.t = "string" /\ item.s = q
      [] fn = "notString" -> item.t # "string"

\* typeFilterBy (lines 8-13) and the undefined default
FbNone == [t |-> "undefined", name |-> "", list |-> << >>, fn |-> ""]

FbName(p) == [t |-> "string", name |-> p, list |-> << >>, fn |-> ""]

FbList(l) == [t |-> "array", name |-> "", list |-> l, fn |-> ""]

FbFn(g) == [t |-> "function", name |-> "", list |-> << >>, fn |-> g]

ElName(p) == [t |-> "string", name |-> p, fn |-> ""]

ElCustom(p, f) == [t |-> "object", name |-> p, fn |-> f]

\* values a filterBy cell takes
FilterBys ==
    { FbName("name"), FbName("a"), FbName(""),
      FbList(<< ElCustom("name", "valEqualsQ"), ElName("a") >>),
      FbList(<< ElName("a"), ElCustom("name", "never") >>),
      FbList(<< >>),
      FbFn("itemEqualsQ"), FbFn("notString") }

Locales == { "en-US", "de-DE" }

(***************************************************************************)
(* Helpers imported from @/utils/helpers                                   *)
(***************************************************************************)
\* isEmpty(search): the emptiness predicate, true when the query is empty
isEmpty(search) == search = << >>

\* isObject(item): a mapping, not an array, not null, not a primitive
isObject(item) == item.t = "object"

(***************************************************************************)
(* useSearch                                                               *)
(***************************************************************************)
\* JavaScript truthiness of a string, null or undefined
Truthy(v) ==
    CASE v.t \in {"undefined", "null"} -> FALSE
      [] v.t = "string" -> v.s # << >>
      [] OTHER -> TRUE

\* mutant: the strict test inverted
extractStringValueFromObj_inverted(obj, key, strict, locale) ==
    LET extractedVal == Get(obj, key)
    IN  IF ~strict
          THEN IF typeof(extractedVal) = "string" THEN extractedVal ELSE Null
          ELSE IF typeof(extractedVal) \in {"string", "number", "boolean"}
                 THEN Str(toLocaleString(extractedVal, locale))
                 ELSE Null

extractStringValueFromObj(obj, key, strict, locale) ==
    LET extractedVal == Get(obj, key)
    IN  IF strict
          THEN IF typeof(extractedVal) = "string" THEN extractedVal ELSE Null
          ELSE IF typeof(extractedVal) \in {"string", "number", "boolean"}
                 THEN Str(toLocaleString(extractedVal, locale))
                 ELSE Null

filterObjectViaProperty(obj, propertyName, q, strict, locale) ==
    LET extractedVal == extractStringValueFromObj(obj, propertyName, strict, locale)
    IN  IF Truthy(extractedVal)
          THEN includes(toLocaleLowerCase(extractedVal.s), q)
          ELSE FALSE

\* mutant: the query is not lowercased
lowerQuery_raw(search) == search

\* line 56: const q = search.value.toLocaleLowerCase()
lowerQuery(search) == toLocaleLowerCase(search)

\* mutant: strict is ignored, numbers and booleans are always admitted
matchPrimitive_loose(item, q, strict) ==
    IF typeof(item) \in {"string", "number", "boolean"}
      THEN IF includes(toLocaleLowerCase(String(item)), q) THEN "keep" ELSE "drop"
      ELSE "pass"

\* lines 75-82: the test of a primitive item; "pass" falls through to line 85
matchPrimitive(item, q, strict) ==
    IF strict
      THEN IF typeof(item) = "string"
             THEN IF includes(toLocaleLowerCase(item.s), q) THEN "keep" ELSE "drop"
             ELSE "pass"
      ELSE IF typeof(item) \in {"string", "number", "boolean"}
             THEN IF includes(toLocaleLowerCase(String(item)), q) THEN "keep" ELSE "drop"
             ELSE "pass"

\* lines 94-105: Object.entries(item).some(...)
scanEntries(item, q, strict) ==
    \E i \in 1..Len(item.p) :
        LET val == item.p[i].v
        IN  IF strict
              THEN typeof(val) = "string" /\ includes(toLocaleLowerCase(val.s), q)
              ELSE /\ typeof(val) \in {"string", "number", "boolean"}
                   /\ includes(toLocaleLowerCase(String(val)), q)

\* lines 133-145: the callback of _filterBy.some, for one element k
matchElement(k, item, search, q, strict, locale) ==
    IF k.t = "string"
      THEN filterObjectViaProperty(item, k.name, q, strict, locale)
      ELSE CallCustom(k.fn, Get(item, k.name), search, item)

\* mutant: every element is evaluated, as filter(...).length > 0 would
some_all(list, i, item, search, q, strict, locale) ==
    [r |-> \E j \in i..Len(list) : matchElement(list[j], item, search, q, strict, locale),
     n |-> Len(list)]

\* Array.prototype.some over the list from element i on: r is its result,
\* n the number of elements its callback was called on
RECURSIVE some(_, _, _, _, _, _, _)
some(list, i, item, search, q, strict, locale) ==
    IF i > Len(list) THEN [r |-> FALSE, n |-> Len(list)]
    ELSE IF matchElement(list[i], item, search, q, strict, locale)
           THEN [r |-> TRUE, n |-> i]
           ELSE some(list, i + 1, item, search, q, strict, locale)

\* !_filterBy (line 93): undefined and the empty string are falsy
notProvided(fb) == fb.t = "undefined" \/ (fb.t = "string" /\ fb.name = "")

\* lines 60-151: the callback of data.filter, for one item
matchItem(item, search, q, fb, strict, locale) ==
    IF fb.t = "function" THEN [r |-> CallGlobal(fb.fn, search, item), n |-> 0]
    ELSE IF matchPrimitive(item, q, strict) # "pass"
           THEN [r |-> matchPrimitive(item, q, strict) = "keep", n |-> 0]
    ELSE IF isObject(item)
           THEN IF notProvided(fb)
                  THEN [r |-> scanEntries(item, q, strict), n |-> 0]
                ELSE IF fb.t = "string"
                  THEN [r |-> filterObjectViaProperty(item, fb.name, q, strict, locale), n |-> 0]
                ELSE some(fb.list, 1, item, search, q, strict, locale)
    ELSE [r |-> FALSE, n |-> 0]

\* mutant: kept items are collected in reverse order (unshift for push)
RECURSIVE filter_reversed(_, _)
filter_reversed(data, flags) ==
    IF data = << >> THEN << >>
    ELSE filter_reversed(Tail(data), Tail(flags))
           \o (IF Head(flags) THEN << Head(data) >> ELSE << >>)

\* Array.prototype.filter: the items whose flag is set, in index order
RECURSIVE filter(_, _)
filter(data, flags) ==
    IF data = << >> THEN << >>
    ELSE (IF Head(flags) THEN << Head(data) >> ELSE << >>) \o filter(Tail(data), Tail(flags))

\* lines 54-152: one evaluation of the computed getter.  value is what it
\* returns, kept[i] whether data[i] passed, evaluated[i] how many elements of a
\* matcher list were evaluated for data[i]
results(search, data, filterBy, strict, locale) ==
    LET q == lowerQuery(search)
        pass == [i \in 1..Len(data) |-> matchItem(data[i], search, q, filterBy, strict, locale)]
        kept == [i \in 1..Len(data) |-> pass[i].r]
    IN  [value |-> filter(data, kept),
         kept |-> kept,
         evaluated |-> [i \in 1..Len(data) |-> pass[i].n]]

(***************************************************************************)
(* State                                                                   *)
(***************************************************************************)
VARIABLES
    data,       \* the collection passed to useSearch
    locale,     \* the host's default locale
    search,     \* search.value
    filterBy,   \* the filterBy argument, or the value its cell holds
    strict,     \* the strict argument, or the value its cell holds
    isStatic,   \* TRUE when useSearch returned ref(data) (line 29)
    hasRead,    \* results.value has been read since the last write to a cell
    lastRead,   \* what that read returned
    kept,       \* kept[i]: data[i] is in lastRead
    evaluated   \* evaluated[i]: matcher-list elements evaluated for data[i]

vars == << data, locale, search, filterBy, strict, isStatic, hasRead, lastRead, kept, evaluated >>

\* the state right after useSearch(search, data, filterBy, strict) returned
Init ==
    /\ data \in Collections
    /\ locale \in Locales
    /\ search \in Queries
    /\ filterBy \in {FbNone} \cup FilterBys
    /\ strict \in BOOLEAN
    /\ isStatic = isEmpty(search)
    /\ hasRead = FALSE
    /\ lastRead = << >>
    /\ kept = << >>
    /\ evaluated = << >>

Forget ==
    /\ hasRead' = FALSE
    /\ lastRead' = << >>
    /\ kept' = << >>
    /\ evaluated' = << >>

\* search.value = q
SetSearch(q) ==
    /\ q # search
    /\ search' = q
    /\ Forget
    /\ UNCHANGED << data, locale, filterBy, strict, isStatic >>

\* filterBy.value = fb, when filterBy was passed as a cell
SetFilterBy(fb) ==
    /\ filterBy # FbNone
    /\ fb # filterBy
    /\ filterBy' = fb
    /\ Forget
    /\ UNCHANGED << data, locale, search, strict, isStatic >>

\* strict.value = b
SetStrict(b) ==
    /\ b # strict
    /\ strict' = b
    /\ Forget
    /\ UNCHANGED << data, locale, search, filterBy, isStatic >>

\* results.value: the plain ref of line 29, or the computed of line 54, which
\* re-runs its getter when a cell it read has changed
ReadResults ==
    /\ ~hasRead
    /\ hasRead' = TRUE
    /\ IF isStatic
         THEN /\ lastRead' = data
              /\ kept' = [i \in 1..Len(data) |-> TRUE]
              /\ evaluated' = [i \in 1..Len(data) |-> 0]
         ELSE LET res == results(search, data, filterBy, strict, locale)
              IN  /\ lastRead' = res.value
                  /\ kept' = res.kept
                  /\ evaluated' = res.evaluated
    /\ UNCHANGED << data, locale, search, filterBy, strict, isStatic >>

Next ==
    \/ \E q \in Queries : SetSearch(q)
    \/ \E fb \in FilterBys : SetFilterBy(fb)
    \/ \E b \in BOOLEAN : SetStrict(b)
    \/ ReadResults

Spec == Init /\ [][Next]_vars

(***************************************************************************)
(* Vocabulary of the claims                                                *)
(***************************************************************************)
IsPrimitive(item) == item.t \in {"string", "number", "boolean"}

IsStructured(item) == item.t = "object"

\* a fresh read of the computed: the filtering pass ran on the current inputs
PassRan == hasRead /\ ~isStatic

\* the items of c that satisfy the global function g for the raw query q
RECURSIVE SelectBy(_, _, _)
SelectBy(c, g, q) ==
    IF c = << >> THEN << >>
    ELSE (IF CallGlobal(g, q, Head(c)) THEN << Head(c) >> ELSE << >>)
           \o SelectBy(Tail(c), g, q)

\* the property test of the claims: the value is admitted under the
\* strictness and its stringified, lowercased form contains the lowercased query
Admitted(val, strictness) ==
    IF strictness THEN val.t = "string" ELSE val.t \in {"string", "number", "boolean"}

PropertyTest(item, p, query, strictness, loc) ==
    /\ Admitted(Get(item, p), strictness)
    /\ includes(toLocaleLowerCase(toLocaleString(Get(item, p), loc)), toLocaleLowerCase(query))

\* the list of all own property names of an item, as a matcher list
RECURSIVE NamesOf(_)
NamesOf(entries) ==
    IF entries = << >> THEN << >>
    ELSE << ElName(Head(entries).k) >> \o NamesOf(Tail(entries))

(***************************************************************************)
(* C1                                                                      *)
(***************************************************************************)
\* C1: Empty-query identity: whenever results is read while the query is the
\* empty string, it equals the input collection (same elements, order, length),
\* whatever filterBy and strict are.
C1_EmptyQueryIdentity ==
    (hasRead /\ search = << >>) => lastRead = data

(***************************************************************************)
(* C2                                                                      *)
(***************************************************************************)
\* C2: Reactive recomputation: after any sequence of writes to the query,
\* filterBy and strict cells, a read of results returns the from-scratch
\* filtering of the collection under the current values (stated here for the
\* non-empty queries, where the filtering is the pass of lines 54-152).
C2_ReactiveRecomputation ==
    (hasRead /\ search # << >>) =>
        lastRead = results(search, data, filterBy, strict, locale).value

(***************************************************************************)
(* C4                                                                      *)
(***************************************************************************)
\* C4: GlobalPredicate override: when filterBy is a function g, results is
\* exactly the items for which g(raw query, item) is true, for every query and
\* either strict value.
C4_GlobalPredicateOverride ==
    (hasRead /\ filterBy.t = "function") =>
        lastRead = SelectBy(data, filterBy.fn, search)

(***************************************************************************)
(* C3                                                                      *)
(***************************************************************************)
\* C3: Subsequence property: for a non-empty query, what a read of results
\* returns is the input's retained occurrences in their original order: there
\* is a strictly increasing map f of result positions to input positions with
\* lastRead[j] = data[f[j]], and occurrence i is in its range iff it was kept
\* (nothing synthesized, nothing reordered, duplicates kept per occurrence).
C3_Subsequence ==
    (hasRead /\ search # << >>) =>
        \E f \in [1..Len(lastRead) -> 1..Len(data)] :
            /\ \A j, k \in 1..Len(lastRead) : j < k => f[j] < f[k]
            /\ \A j \in 1..Len(lastRead) : lastRead[j] = data[f[j]]
            /\ \A i \in 1..Len(data) : kept[i] <=> (\E j \in 1..Len(lastRead) : f[j] = i)

\* a pass over a collection holding the same item twice kept both occurrences
C3_Witness ==
    /\ PassRan
    /\ search # << >>
    /\ Len(data) >= 2
    /\ data[1] = data[2]
    /\ kept[1] /\ kept[2]
    /\ Len(lastRead) >= 2

(***************************************************************************)
(* C5                                                                      *)
(***************************************************************************)
\* C5: Strictness narrowing: with filterBy absent or a single property name,
\* every item the filtering pass keeps with strict = true is kept with
\* strict = false, for the same collection, query and filterBy.
C5_StrictnessNarrowing ==
    (PassRan /\ filterBy.t \in {"undefined", "string"}) =>
        LET other == results(search, data, filterBy, ~strict, locale).kept
        IN  \A i \in 1..Len(data) :
                IF strict THEN kept[i] => other[i] ELSE other[i] => kept[i]

\* a strict pass kept one item and dropped one that the loose pass keeps
C5_Witness ==
    /\ PassRan
    /\ strict
    /\ filterBy.t \in {"undefined", "string"}
    /\ search # << >>
    /\ \E i \in 1..Len(data) : kept[i]
    /\ \E i \in 1..Len(data) :
          ~kept[i] /\ results(search, data, filterBy, FALSE, locale).kept[i]

(***************************************************************************)
(* C6                                                                      *)
(***************************************************************************)
AllStrings(c) == \A i \in 1..Len(c) : c[i].t = "string"

LowerItems(c) == [i \in 1..Len(c) |-> Str(toLocaleLowerCase(c[i].s))]

\* C6: Case insensitivity: for a collection of strings and no filterBy, the
\* filtering pass gives the same result for every query that differs from the
\* current one only in letter case, and lowercasing the items does not change
\* which positions are kept.
C6_CaseInsensitivity ==
    (PassRan /\ AllStrings(data) /\ filterBy = FbNone) =>
        /\ \A q2 \in Queries :
              toLocaleLowerCase(q2) = toLocaleLowerCase(search) =>
                  results(q2, data, filterBy, strict, locale).value = lastRead
        /\ results(search, LowerItems(data), filterBy, strict, locale).kept = kept

\* the upper-case query "AN" kept the string "AN" and dropped another string
C6_Witness ==
    /\ PassRan
    /\ AllStrings(data)
    /\ filterBy = FbNone
    /\ search = sAN
    /\ lastRead # << >>
    /\ Len(lastRead) < Len(data)

(***************************************************************************)
(* C7                                                                      *)
(***************************************************************************)
PrimitiveTest(item, query, strictness) ==
    /\ Admitted(item, strictness)
    /\ includes(toLocaleLowerCase(String(item)), toLocaleLowerCase(query))

C8_PropertyName ==
    (PassRan /\ search # << >> /\ filterBy.t = "string") =>
        \A i \in 1..Len(data) :
            IsStructured(data[i]) =>
                kept[i] = PropertyTest(data[i], filterBy.name, search, strict, locale)

(***************************************************************************)
(* C9                                                                      *)
(***************************************************************************)
\* one element of a matcher list, as the claim states it: a string is the
\* PropertyName test of line 117, a custom element its own function called
\* with the property value, the raw query and the item
ElementTest(k, item) ==
    IF k.t = "string"
      THEN filterObjectViaProperty(item, k.name, toLocaleLowerCase(search), strict, locale)
      ELSE CallCustom(k.fn, Get(item, k.name), search, item)

C10_NoneEquivalence ==
    (PassRan /\ search # << >> /\ filterBy = FbNone) =>
        \A i \in 1..Len(data) :
            IsStructured(data[i]) =>
                kept[i] = matchItem(data[i], search, lowerQuery(search),
                                    FbList(NamesOf(data[i].p)), strict, locale).r

====
